---- MODULE Spec2Model ----
(***************************************************************************)
(* Model of cargo-chef's version masking (src/skeleton/version_masking.rs).*)
(*                                                                         *)
(* A string is a sequence of one-character strings, so that formatting     *)
(* ("{} {}"), split('.'), split_once(' ') and u32 parsing are computed     *)
(* character by character as the code computes them.  A toml::Value that   *)
(* the masking inspects is a record [t, s]: t = "str" with its characters  *)
(* in s, t = "int" for any value that is not a string, t = "none" for a    *)
(* key that is absent.                                                     *)
(***************************************************************************)
EXTENDS Integers, Sequences, FiniteSets

VARIABLES
    manifests,            \* the caller's &mut [ParsedManifest]
    lock_file,            \* the caller's &mut Option<toml::Value>
    local_package_names,  \* the Vec<Package> of mask_local_crate_versions
    pc,                   \* position inside mask_local_crate_versions
    idx,                  \* index of the manifest the loop of line 71 is at
    run,                  \* how many times the caller has invoked the masking
    in_manifests,         \* the manifests as passed to the current invocation
    in_lock,              \* the lock document as passed to the current invocation
    out_manifests,        \* the manifests as returned by the first invocation
    out_lock,             \* the lock document as returned by the first invocation
    cv_first,             \* covers: argument `first`
    cv_second,            \* covers: argument `second`
    cv_result             \* covers: what the call produced

vars == <<manifests, lock_file, local_package_names, pc, idx, run,
          in_manifests, in_lock, out_manifests, out_lock,
          cv_first, cv_second, cv_result>>

pipeline_vars == <<manifests, lock_file, local_package_names, pc, idx, run,
                   in_manifests, in_lock, out_manifests, out_lock>>

covers_vars == <<cv_first, cv_second, cv_result>>

-----------------------------------------------------------------------------
(* toml values *)

Str(s) == [t |-> "str", s |-> s]
NonStr == [t |-> "int", s |-> <<>>]
Absent == [t |-> "none", s |-> <<>>]

IsStr(v) == v.t = "str"
IsPresent(v) == v.t # "none"

\* const CONST_VERSION: &str = "0.0.1";
CONST_VERSION == <<"0", ".", "0", ".", "1">>

-----------------------------------------------------------------------------
(* str::split, str::split_once, u32::from_str *)

Digits == <<"0", "1", "2", "3", "4", "5", "6", "7", "8", "9">>

IsDigit(c) == \E d \in 1..10 : Digits[d] = c

DigitVal(c) == (CHOOSE d \in 1..10 : Digits[d] = c) - 1

\* u32::MAX, in decimal
U32MaxDigits == <<"4", "2", "9", "4", "9", "6", "7", "2", "9", "5">>

\* The pieces of `s` between occurrences of `sep`; always at least one piece.
RECURSIVE SplitAcc(_, _, _, _)
SplitAcc(s, sep, done, cur) ==
    IF s = <<>> THEN Append(done, cur)
    ELSE IF Head(s) = sep THEN SplitAcc(Tail(s), sep, Append(done, cur), <<>>)
    ELSE SplitAcc(Tail(s), sep, done, Append(cur, Head(s)))

Split(s, sep) == SplitAcc(s, sep, <<>>, <<>>)

RECURSIVE StripZeros(_)
StripZeros(s) ==
    IF Len(s) > 1 /\ Head(s) = "0" THEN StripZeros(Tail(s)) ELSE s

\* For digit strings of equal length: a > b as numbers.
RECURSIVE DigitsGreater(_, _)
DigitsGreater(a, b) ==
    IF a = <<>> THEN FALSE
    ELSE IF Head(a) # Head(b) THEN DigitVal(Head(a)) > DigitVal(Head(b))
    ELSE DigitsGreater(Tail(a), Tail(b))

\* A u32 is kept as its decimal digits without leading zeros, so that two
\* values are equal exactly when their digits are; <<>> stands for
\* Err(ParseIntError).
ParseErr == <<>>

\* The digits `n` (no leading zeros) as a u32: an error when they exceed 32 bits.
InRange(n) ==
    IF Len(n) > Len(U32MaxDigits) THEN ParseErr
    ELSE IF Len(n) = Len(U32MaxDigits) /\ DigitsGreater(n, U32MaxDigits) THEN ParseErr
    ELSE n

\* One or more digits whose value fits 32 bits.
ParseDigits(s) ==
    IF s = <<>> \/ \E i \in 1..Len(s) : ~IsDigit(s[i]) THEN ParseErr
    ELSE InRange(StripZeros(s))

\* <u32 as FromStr>::from_str: an optional leading '+', then the digits.
ParseU32(s) ==
    IF s # <<>> /\ Head(s) = "+" THEN ParseDigits(Tail(s)) ELSE ParseDigits(s)

\* splits.next().unwrap().parse().unwrap() for the n-th piece: ParseErr when
\* either unwrap panics.
NthParsed(pieces, n) ==
    IF Len(pieces) < n THEN ParseErr ELSE ParseU32(pieces[n])

Component(s, n) == NthParsed(Split(s, "."), n)

Zero == <<"0">>

\* lines 190-198 without the test of line 194
compare_without_zero_major(first_major, first_minor, second_major, second_minor) ==
    IF ParseErr \in {first_major, first_minor, second_major, second_minor} THEN "panic"
    ELSE IF first_major # second_major THEN "false"
    ELSE "true"

\* lines 184-198 on the four parsed components: "panic" when a parse failed
compare_components(first_major, first_minor, second_major, second_minor) ==
    IF ParseErr \in {first_major, first_minor, second_major, second_minor} THEN "panic"
    ELSE IF first_major # second_major THEN "false"
    ELSE IF first_major # Zero THEN "true"
    ELSE IF first_minor = second_minor THEN "true"
    ELSE "false"

\* covers, lines 175-199: "true", "false", or "panic" when an unwrap fails.
covers(first, second) ==
    IF second = <<"*">> THEN "true"
    ELSE compare_components(Component(first, 1), Component(first, 2),
                            Component(second, 1), Component(second, 2))

-----------------------------------------------------------------------------
(* Documents.                                                              *)
(*                                                                         *)
(* A dependency entry is [key, table, package, version]: `table` says      *)
(* whether the value under `key` is a table (`key = { version = ".." }`)   *)
(* or a plain string (`key = ".."`, kept in `version`; Value::get finds no *)
(* field in it).  A dependency table is the sequence of its entries in     *)
(* iteration order; <<>> also stands for a missing key and for a value     *)
(* that is not a table, which the code skips alike.  A section is what     *)
(* _mask receives: the three dependency tables of one toml table.          *)
(*                                                                         *)
(* A manifest is [package, top, target, workspace]: `package` is           *)
(* [present, name, version]; `top` is the section of the document root;    *)
(* `target` is the sequence of [selector, config] of the `target` table;   *)
(* `workspace` is [present, package_version, deps].                        *)
(*                                                                         *)
(* The lock document is [present, package]: `present` is FALSE for None,   *)
(* `package` is the array of entries [name, version, dependencies].        *)


DependencyKeys == <<"dependencies", "dev-dependencies", "build-dependencies">>

DependencyKeySet == {DependencyKeys[i] : i \in 1..Len(DependencyKeys)}

\* Results of the steps that can panic: the value as mutated so far, and
\* whether the step ran to its end.
Ok(v) == [v |-> v, ok |-> TRUE]
Panicked(v) == [v |-> v, ok |-> FALSE]

\* A loop over a sequence that stops at the first panic: the head's result,
\* the elements not yet visited, and the result of the loop over them.
Chain(head, tail, rest) ==
    IF ~head.ok THEN Panicked(<<head.v>> \o tail)
    ELSE [v |-> <<head.v>> \o rest.v, ok |-> rest.ok]

\* Iterator::any: the remaining elements are tried only after a "false".
OrElse(c, rest) == IF c = "false" THEN rest ELSE c

\* lines 155-164 without the test that `version` is a string
local_package_named(package) ==
    IF package.present /\ IsStr(package.name)
    THEN <<[name |-> package.name.s, version |-> package.version.s]>>
    ELSE <<>>

\* lines 155-164, what one manifest contributes
local_package_of(package) ==
    IF package.present /\ IsStr(package.name) /\ IsStr(package.version)
    THEN <<[name |-> package.name.s, version |-> package.version.s]>>
    ELSE <<>>

\* lines 152-167
RECURSIVE parse_local_crate_names(_)
parse_local_crate_names(ms) ==
    IF ms = <<>> THEN <<>>
    ELSE local_package_of(Head(ms).package) \o parse_local_crate_names(Tail(ms))

\* lines 95-98 without the comparison of the names
RECURSIVE any_covers_whatever_name(_, _, _)
any_covers_whatever_name(locals, package_name, version) ==
    IF locals = <<>> THEN "false"
    ELSE IF ~IsStr(version) THEN "panic"
    ELSE OrElse(covers(Head(locals).version, version.s),
                any_covers_whatever_name(Tail(locals), package_name, version))

\* The closure of lines 95-98 under Iterator::any: locals are tried in order,
\* covers is called only after the name matched, the first "true" ends the
\* search, and version.as_str().unwrap() panics on a version that is no string.
RECURSIVE any_local_covers(_, _, _)
any_local_covers(locals, package_name, version) ==
    IF locals = <<>> THEN "false"
    ELSE IF package_name # Str(Head(locals).name)
         THEN any_local_covers(Tail(locals), package_name, version)
    ELSE IF ~IsStr(version) THEN "panic"
    ELSE OrElse(covers(Head(locals).version, version.s),
                any_local_covers(Tail(locals), package_name, version))

\* lines 89-92 with the table key taken for every entry
key_as_name(dependency) == Str(dependency.key)

\* lines 89-92
effective_name(dependency) ==
    IF dependency.table /\ IsPresent(dependency.package)
    THEN dependency.package
    ELSE Str(dependency.key)

\* line 99, guarded by the outcome of lines 95-98
with_version_masked_if(dependency, hit) ==
    IF hit = "panic" THEN Panicked(dependency)
    ELSE IF hit = "true" THEN Ok([dependency EXCEPT !.version = Str(CONST_VERSION)])
    ELSE Ok(dependency)

\* lines 88-101, one iteration of the loop over a dependency table
mask_dependency(locals, dependency) ==
    IF dependency.table /\ IsPresent(dependency.version)
    THEN with_version_masked_if(
             dependency,
             any_local_covers(locals, effective_name(dependency), dependency.version))
    ELSE Ok(dependency)

\* lines 86-103, the loop over one dependency table
RECURSIVE mask_table(_, _)
mask_table(locals, dependencies) ==
    IF dependencies = <<>> THEN Ok(<<>>)
    ELSE Chain(mask_dependency(locals, Head(dependencies)), Tail(dependencies),
               mask_table(locals, Tail(dependencies)))

\* The toml table with the outcome of masking its dependency table `key`.
store_table(toml_value, key, r) ==
    [v |-> [toml_value EXCEPT ![key] = r.v], ok |-> r.ok]

\* lines 84-106, _mask: the dependency tables of one toml table, from the
\* k-th dependency key on
RECURSIVE mask_keys(_, _, _)
RECURSIVE mask_next_key(_, _, _)
mask_next_key(locals, r, k) ==
    IF r.ok THEN mask_keys(locals, r.v, k + 1) ELSE r

mask_keys(locals, toml_value, k) ==
    IF k > Len(DependencyKeys) THEN Ok(toml_value)
    ELSE mask_next_key(locals,
                       store_table(toml_value, DependencyKeys[k],
                                   mask_table(locals, toml_value[DependencyKeys[k]])),
                       k)

\* lines 84-106, _mask
mask(locals, toml_value) == mask_keys(locals, toml_value, 1)

store_config(target_entry, r) ==
    [v |-> [target_entry EXCEPT !.config = r.v], ok |-> r.ok]

\* lines 124-130, the loop over the entries of the `target` table
RECURSIVE mask_targets(_, _)
mask_targets(locals, target) ==
    IF target = <<>> THEN Ok(<<>>)
    ELSE Chain(store_config(Head(target), mask(locals, Head(target).config)),
               Tail(target), mask_targets(locals, Tail(target)))

\* lines 142-146
mask_workspace_version(workspace) ==
    IF IsPresent(workspace.package_version)
    THEN [workspace EXCEPT !.package_version = Str(CONST_VERSION)]
    ELSE workspace

store_deps(workspace, r) ==
    [v |-> [workspace EXCEPT !.deps = r.v], ok |-> r.ok]

\* lines 140-149 without line 148
skip_workspace_deps(locals, workspace) == Ok(workspace)

\* line 148
mask_workspace_deps(locals, workspace) ==
    store_deps(workspace, mask(locals, workspace.deps))

\* lines 140-149
mask_workspace(locals, workspace) ==
    IF ~workspace.present THEN Ok(workspace)
    ELSE mask_workspace_deps(locals, mask_workspace_version(workspace))

store_top(manifest, r) == [v |-> [manifest EXCEPT !.top = r.v], ok |-> r.ok]

store_target(manifest, r) == [v |-> [manifest EXCEPT !.target = r.v], ok |-> r.ok]

store_workspace(manifest, r) == [v |-> [manifest EXCEPT !.workspace = r.v], ok |-> r.ok]

\* lines 140-149, after the steps before them
mask_from_workspace(locals, r) ==
    IF r.ok THEN store_workspace(r.v, mask_workspace(locals, r.v.workspace)) ELSE r

\* lines 124-149, after line 123
mask_from_target(locals, r) ==
    IF r.ok
    THEN mask_from_workspace(locals, store_target(r.v, mask_targets(locals, r.v.target)))
    ELSE r

\* lines 83-150
mask_local_dependency_versions(locals, manifest) ==
    mask_from_target(locals, store_top(manifest, mask(locals, manifest.top)))

\* lines 72-78
mask_own_version(manifest) ==
    IF manifest.package.present /\ IsStr(manifest.package.version)
    THEN [manifest EXCEPT !.package.version = Str(CONST_VERSION)]
    ELSE manifest

\* lines 71-80, one iteration of the loop over the manifests
mask_manifest(locals, manifest) ==
    mask_local_dependency_versions(locals, mask_own_version(manifest))

-----------------------------------------------------------------------------
(* The lock document *)

\* format!("{} {}", a, b)
Format2(a, b) == a \o <<" ">> \o b

\* str::split_once(' ').unwrap().0: the characters before the first space
RECURSIVE BeforeSpace(_)
BeforeSpace(s) ==
    IF s = <<>> \/ Head(s) = " " THEN <<>> ELSE <<Head(s)>> \o BeforeSpace(Tail(s))

\* lines 48-51
dependency_strings(locals) ==
    {Format2(locals[i].name, locals[i].version) : i \in 1..Len(locals)}

\* The closure of lines 37-40 under Iterator::any, evaluated like the one of
\* lines 95-98.
RECURSIVE any_local_is(_, _, _)
any_local_is(locals, name, version) ==
    IF locals = <<>> THEN "false"
    ELSE IF Str(Head(locals).name) # name
         THEN any_local_is(Tail(locals), name, version)
    ELSE IF ~IsStr(version) THEN "panic"
    ELSE OrElse(covers(Head(locals).version, version.s),
                any_local_is(Tail(locals), name, version))

\* lines 33-41, the filter
is_local_lock_entry(locals, package) ==
    IF ~IsPresent(package.name) \/ ~IsPresent(package.version) THEN "false"
    ELSE any_local_is(locals, package.name, package.version)

\* lines 53-59, one dependency reference
mask_reference(locals, dependency) ==
    IF dependency.s \in dependency_strings(locals)
    THEN Str(Format2(BeforeSpace(dependency.s), CONST_VERSION))
    ELSE dependency

\* line 53: dependency.as_str().unwrap() panics on a reference that is no string
mask_reference_checked(locals, dependency) ==
    IF IsStr(dependency) THEN Ok(mask_reference(locals, dependency))
    ELSE Panicked(dependency)

\* lines 52-60, the loop over the dependency references of a local entry
RECURSIVE mask_references(_, _)
mask_references(locals, dependencies) ==
    IF dependencies = <<>> THEN Ok(<<>>)
    ELSE Chain(mask_reference_checked(locals, Head(dependencies)), Tail(dependencies),
               mask_references(locals, Tail(dependencies)))

store_references(package, r) ==
    [v |-> [package EXCEPT !.dependencies = r.v], ok |-> r.ok]

\* lines 44-61 with the references of every entry rewritten, local or not
mask_every_entry(locals, package, hit) ==
    IF hit = "panic" THEN Panicked(package)
    ELSE store_references(
             IF hit = "true" THEN [package EXCEPT !.version = Str(CONST_VERSION)]
             ELSE package,
             mask_references(locals, package.dependencies))

\* lines 43-63, the for_each, guarded by the outcome of the filter
mask_if_local(locals, package, hit) ==
    IF hit = "panic" THEN Panicked(package)
    ELSE IF hit = "false" THEN Ok(package)
    ELSE store_references([package EXCEPT !.version = Str(CONST_VERSION)],
                          mask_references(locals, package.dependencies))

\* lines 33-63, the filter and the for_each for one entry of the array
mask_lock_entry(locals, package) ==
    mask_if_local(locals, package, is_local_lock_entry(locals, package))

\* lines 30-63, the iterator chain over the `package` array
RECURSIVE mask_lock_entries(_, _)
mask_lock_entries(locals, packages) ==
    IF packages = <<>> THEN Ok(<<>>)
    ELSE Chain(mask_lock_entry(locals, Head(packages)), Tail(packages),
               mask_lock_entries(locals, Tail(packages)))

store_packages(lock, r) == [v |-> [lock EXCEPT !.package = r.v], ok |-> r.ok]

\* lines 25-65
mask_local_versions_in_lockfile(locals, lock) ==
    store_packages(lock, mask_lock_entries(locals, lock.package))

-----------------------------------------------------------------------------
(* The whole run *)

\* lines 67-81, the loop over all the manifests
RECURSIVE mask_local_versions_in_manifests(_, _)
mask_local_versions_in_manifests(locals, ms) ==
    IF ms = <<>> THEN Ok(<<>>)
    ELSE Chain(mask_manifest(locals, Head(ms)), Tail(ms),
               mask_local_versions_in_manifests(locals, Tail(ms)))

\* lines 17-19
mask_lock_option(locals, lock) ==
    IF lock.present THEN mask_local_versions_in_lockfile(locals, lock) ELSE Ok(lock)

\* lines 17-19, after line 16
mask_lock_after(locals, ms, lock) ==
    IF ms.ok THEN [manifests |-> ms.v, lock |-> mask_lock_option(locals, lock).v,
                   ok |-> mask_lock_option(locals, lock).ok]
    ELSE [manifests |-> ms.v, lock |-> lock, ok |-> FALSE]

\* lines 16-19 for the local packages found at line 14
mask_with(locals, ms, lock) ==
    mask_lock_after(locals, mask_local_versions_in_manifests(locals, ms), lock)

\* lines 10-20
mask_local_crate_versions(ms, lock) ==
    mask_with(parse_local_crate_names(ms), ms, lock)

-----------------------------------------------------------------------------
(* Inputs *)

MaxManifests == 2

MaxLockEntries == 2

MaxComponents == 3

SeqsUpTo(S, n) == UNION {[1..k -> S] : k \in 0..n}

NameA == <<"a">>
NameB == <<"b">>
NameC == <<"c">>

V120 == <<"1", ".", "2", ".", "0">>
V123 == <<"1", ".", "2", ".", "3">>
V200 == <<"2", ".", "0", ".", "0">>
V031 == <<"0", ".", "3", ".", "1">>
V007 == <<"0", ".", "0", ".", "7">>
V19 == <<"1", ".", "9">>
V20 == <<"2", ".", "0">>
V005 == <<"0", ".", "0", ".", "5">>
VBare1 == <<"1">>
VStar == <<"*">>

EmptySection == [k \in DependencyKeySet |-> <<>>]

NoPackage == [present |-> FALSE, name |-> Absent, version |-> Absent]

Package(name, version) == [present |-> TRUE, name |-> name, version |-> version]

NoWorkspace == [present |-> FALSE, package_version |-> Absent, deps |-> EmptySection]

Manifest(package) ==
    [package |-> package, top |-> EmptySection, target |-> <<>>, workspace |-> NoWorkspace]

Dependency(key, package, version) ==
    [key |-> key, table |-> TRUE, package |-> package, version |-> version]

\* `key = "version"`
PlainDependency(key, version) ==
    [key |-> key, table |-> FALSE, package |-> Absent, version |-> Str(version)]

SectionWith(key, dependencies) == [EmptySection EXCEPT ![key] = dependencies]

\* The manifest `m` with `dependencies` as the table `key` of location `loc`.
WithDependencies(m, loc, key, dependencies) ==
    CASE loc = "top" -> [m EXCEPT !.top = SectionWith(key, dependencies)]
      [] loc = "target" ->
            [m EXCEPT !.target = <<[selector |-> <<"w">>,
                                    config |-> SectionWith(key, dependencies)]>>]
      [] loc = "workspace" ->
            [m EXCEPT !.workspace = [present |-> TRUE, package_version |-> Str(V120),
                                     deps |-> SectionWith(key, dependencies)]]

PlacePool ==
    {<<"top", k>> : k \in DependencyKeySet}
        \cup {<<"target", "dependencies">>, <<"workspace", "dependencies">>}

DependencyPool ==
    {Dependency(e[1], e[2], Str(v)) :
        e \in {<<NameA, Absent>>, <<NameC, Absent>>, <<NameC, Str(NameA)>>, <<NameA, Str(NameC)>>},
        v \in {V19, V20, V005, VBare1, VStar}}
    \cup {Dependency(NameA, Absent, Absent), Dependency(NameC, Str(NameA), Absent),
          Dependency(NameA, Absent, NonStr), Dependency(NameC, Absent, NonStr),
          Dependency(NameA, NonStr, Str(V19)), PlainDependency(NameA, V19)}

\* Manifests holding several entries in several places at once.
RichManifests ==
    {[package |-> Package(Str(NameB), Str(V031)),
      top |-> SectionWith("dependencies",
                          <<Dependency(NameA, Absent, Str(V19)),
                            Dependency(NameC, Absent, Str(V19)),
                            Dependency(NameC, Str(NameA), Str(V19)),
                            Dependency(NameA, Str(NameC), Str(V19))>>),
      target |-> <<[selector |-> <<"u">>,
                    config |-> SectionWith("dependencies",
                                           <<Dependency(NameA, Absent, Str(V20))>>)],
                   [selector |-> <<"w">>,
                    config |-> SectionWith("dev-dependencies",
                                           <<Dependency(NameA, Absent, Str(V19))>>)]>>,
      workspace |-> [present |-> TRUE, package_version |-> NonStr,
                     deps |-> SectionWith("build-dependencies",
                                          <<Dependency(NameA, Absent, Str(V19))>>)]],
     [package |-> NoPackage,
      top |-> SectionWith("dependencies",
                          <<Dependency(NameA, Absent, Str(V19)),
                            Dependency(NameB, Absent, Str(VBare1)),
                            Dependency(NameC, Str(NameA), Str(V19))>>),
      target |-> <<>>,
      workspace |-> [present |-> TRUE, package_version |-> Absent,
                     deps |-> SectionWith("dependencies",
                                          <<Dependency(NameB, Absent, Str(V031))>>)]]}

\* Manifests that declare dependencies.
ConsumerPool ==
    {WithDependencies(Manifest(p), place[1], place[2], <<d>>) :
        p \in {NoPackage, Package(Str(NameB), Str(V031))},
        place \in PlacePool, d \in DependencyPool}
    \cup RichManifests

\* Manifests of the packages the consumers depend on.
ProviderPool ==
    {Manifest(Package(Str(NameA), Str(V120))), Manifest(Package(Str(NameB), Str(V031))),
     Manifest(Package(Str(NameA), Str(VBare1)))}

\* Manifests with every shape of `package` table.
PackagePool ==
    {Manifest(NoPackage)}
    \cup {Manifest(Package(n, v)) :
            n \in {Str(NameA), NonStr}, v \in {Str(V120), NonStr, Absent}}
    \cup {Manifest(Package(Absent, Str(V031))), Manifest(Package(Str(NameB), Str(V031)))}

LockEntry(name, version, dependencies) ==
    [name |-> name, version |-> version, dependencies |-> dependencies]

ReferencePool ==
    {<<>>, <<Str(Format2(NameA, V120))>>, <<Str(Format2(NameA, V123))>>,
     <<Str(NameA), Str(Format2(NameB, V031)), Str(Format2(NameC, V120))>>}

LockEntryPool ==
    {LockEntry(Str(e[1]), Str(e[2]), r) :
        e \in {<<NameA, V120>>, <<NameA, V123>>, <<NameA, V200>>, <<NameB, V031>>,
               <<NameC, V120>>},
        r \in ReferencePool}
    \cup {LockEntry(Str(NameA), Str(V007), <<>>), LockEntry(Str(NameA), NonStr, <<>>),
          LockEntry(NonStr, Str(V120), <<>>), LockEntry(Absent, Str(V120), <<>>),
          LockEntry(Str(NameA), Absent, <<>>), LockEntry(Str(NameA), Str(VBare1), <<>>),
          LockEntry(Str(NameB), Str(V031), <<Str(Format2(NameA, V120)), NonStr>>)}

NoLock == [present |-> FALSE, package |-> <<>>]

Lock(packages) == [present |-> TRUE, package |-> packages]

\* Where a consumer can stand among up to MaxManifests - 1 providers.
Arrangements ==
    {a \in SeqsUpTo(ProviderPool, MaxManifests - 1) \X (0..(MaxManifests - 1)) :
        a[2] <= Len(a[1])}

\* A consumer among providers, without a lock document.
DependencyInputs ==
    {[manifests |-> SubSeq(a[1], 1, a[2]) \o <<c>> \o SubSeq(a[1], a[2] + 1, Len(a[1])),
      lock |-> NoLock] :
        c \in ConsumerPool, a \in Arrangements}

\* Every shape of `package` table, without a lock document.
DiscoveryInputs ==
    {[manifests |-> ms, lock |-> NoLock] : ms \in SeqsUpTo(PackagePool, MaxManifests)}

\* The manifests of the local packages a and b, or of b alone.
LockManifests ==
    {<<Manifest(Package(Str(NameA), Str(V120))), Manifest(Package(Str(NameB), Str(V031)))>>,
     <<Manifest(Package(Str(NameB), Str(V031)))>>}

\* Local packages and a lock document.
LockInputs ==
    {[manifests |-> ms, lock |-> Lock(ps)] :
        ms \in LockManifests, ps \in SeqsUpTo(LockEntryPool, MaxLockEntries)}

\* Version strings: up to MaxComponents components joined by '.', and the
\* strings the documentation of covers is about.
ComponentPool == {<<"0">>, <<"1">>, <<"1", "0">>, <<"^", "1">>}

RECURSIVE Join(_)
Join(cs) ==
    IF Len(cs) = 1 THEN cs[1] ELSE cs[1] \o <<".">> \o Join(Tail(cs))

VersionPool ==
    {Join(cs) : cs \in SeqsUpTo(ComponentPool, MaxComponents) \ {<<>>}}
    \cup {<<"1", ".", "2">>, V19, V20, <<"0", ".", "3">>, <<"0", ".", "4">>,
          <<"0", ".", "0">>, VStar, VBare1, <<"^", "1", ".", "2">>,
          <<">", "=", "1", ".", "0">>, <<>>, <<"1", ".">>, <<".", "1">>,
          <<"+", "1", ".", "2">>, <<"1", ".", "2", "-", "r", "c">>,
          <<"4", "2", "9", "4", "9", "6", "7", "2", "9", "5", ".", "0">>,
          <<"4", "2", "9", "4", "9", "6", "7", "2", "9", "6", ".", "0">>}

-----------------------------------------------------------------------------
(* The masking run *)

\* mask_local_crate_versions is entered with the caller's documents.
Enter(input) ==
    /\ manifests = input.manifests
    /\ lock_file = input.lock
    /\ in_manifests = input.manifests
    /\ in_lock = input.lock
    /\ local_package_names = <<>>
    /\ pc = "start"
    /\ idx = 0
    /\ run = 1
    /\ out_manifests = <<>>
    /\ out_lock = NoLock
    /\ cv_first = <<>>
    /\ cv_second = <<>>
    /\ cv_result = "none"

Init ==
    \/ \E input \in DependencyInputs : Enter(input)
    \/ \E input \in DiscoveryInputs : Enter(input)
    \/ \E input \in LockInputs : Enter(input)

\* line 14
Discover ==
    /\ pc = "start"
    /\ local_package_names' = parse_local_crate_names(manifests)
    /\ pc' = "manifests"
    /\ idx' = 1
    /\ UNCHANGED <<manifests, lock_file, run, in_manifests, in_lock,
                   out_manifests, out_lock, covers_vars>>

\* lines 71-80 with the local packages read again from the manifests as they
\* are when the iteration starts
MaskManifestRediscovering ==
    /\ pc = "manifests"
    /\ idx <= Len(manifests)
    /\ LET r == mask_manifest(parse_local_crate_names(manifests), manifests[idx])
       IN  /\ manifests' = [manifests EXCEPT ![idx] = r.v]
           /\ idx' = IF r.ok THEN idx + 1 ELSE idx
           /\ pc' = IF r.ok THEN pc ELSE "panicked"
    /\ local_package_names' = parse_local_crate_names(manifests)
    /\ UNCHANGED <<lock_file, run, in_manifests, in_lock,
                   out_manifests, out_lock, covers_vars>>

\* The manifest at idx becomes r.v; a panic ends the run.
ManifestMasked(r) ==
    /\ manifests' = [manifests EXCEPT ![idx] = r.v]
    /\ idx' = IF r.ok THEN idx + 1 ELSE idx
    /\ pc' = IF r.ok THEN pc ELSE "panicked"

\* lines 71-80, one iteration
MaskManifest ==
    /\ pc = "manifests"
    /\ idx <= Len(manifests)
    /\ ManifestMasked(mask_manifest(local_package_names, manifests[idx]))
    /\ UNCHANGED <<lock_file, local_package_names, run, in_manifests, in_lock,
                   out_manifests, out_lock, covers_vars>>

LockfileMasked(r) ==
    /\ lock_file' = r.v
    /\ pc' = IF r.ok THEN "done" ELSE "panicked"

\* lines 17-19 with Some(l)
MaskLockfile ==
    /\ pc = "manifests"
    /\ idx > Len(manifests)
    /\ lock_file.present
    /\ LockfileMasked(mask_local_versions_in_lockfile(local_package_names, lock_file))
    /\ UNCHANGED <<manifests, local_package_names, idx, run, in_manifests, in_lock,
                   out_manifests, out_lock, covers_vars>>

\* lines 17-19 with None
NoLockfile ==
    /\ pc = "manifests"
    /\ idx > Len(manifests)
    /\ ~lock_file.present
    /\ pc' = "done"
    /\ UNCHANGED <<manifests, lock_file, local_package_names, idx, run, in_manifests,
                   in_lock, out_manifests, out_lock, covers_vars>>

\* The caller passes the documents it got back to mask_local_crate_versions again.
MaskAgain ==
    /\ pc = "done"
    /\ run = 1
    /\ run' = 2
    /\ out_manifests' = manifests
    /\ out_lock' = lock_file
    /\ in_manifests' = manifests
    /\ in_lock' = lock_file
    /\ local_package_names' = <<>>
    /\ pc' = "start"
    /\ idx' = 0
    /\ UNCHANGED <<manifests, lock_file, covers_vars>>

Next == Discover \/ MaskManifest \/ MaskLockfile \/ NoLockfile \/ MaskAgain

Spec == Init /\ [][Next]_vars

-----------------------------------------------------------------------------
(* covers on its own *)

InitCovers ==
    /\ cv_first \in VersionPool
    /\ cv_second \in VersionPool
    /\ cv_result = "none"
    /\ manifests = <<>>
    /\ lock_file = NoLock
    /\ in_manifests = <<>>
    /\ in_lock = NoLock
    /\ local_package_names = <<>>
    /\ pc = "idle"
    /\ idx = 0
    /\ run = 0
    /\ out_manifests = <<>>
    /\ out_lock = NoLock

\* lines 175-199
CallCovers ==
    /\ cv_result = "none"
    /\ pc = "idle"
    /\ cv_result' = covers(cv_first, cv_second)
    /\ UNCHANGED <<cv_first, cv_second, pipeline_vars>>

NextCovers == CallCovers

SpecCovers == InitCovers /\ [][NextCovers]_vars

-----------------------------------------------------------------------------
(* Vocabulary of the properties *)

\* Where the dependency entries of manifest m are: <<location, index of the
\* target, dependency key, index in the table>>.
Positions(m) ==
    UNION {{<<"top", 0, k, i>> : i \in 1..Len(m.top[k])} : k \in DependencyKeySet}
    \cup UNION {UNION {{<<"target", n, k, i>> : i \in 1..Len(m.target[n].config[k])} :
                         k \in DependencyKeySet} : n \in 1..Len(m.target)}
    \cup UNION {{<<"workspace", 0, k, i>> : i \in 1..Len(m.workspace.deps[k])} :
                  k \in DependencyKeySet}

At(m, p) ==
    CASE p[1] = "top" -> m.top[p[3]][p[4]]
      [] p[1] = "target" -> m.target[p[2]].config[p[3]][p[4]]
      [] p[1] = "workspace" -> m.workspace.deps[p[3]][p[4]]

ManifestIndexes == 1..Len(in_manifests)

LockIndexes == 1..Len(in_lock.package)

Locals == {local_package_names[i] : i \in 1..Len(local_package_names)}

LocalNames == {l.name : l \in Locals}

Placeholder == Str(CONST_VERSION)

\* The name a dependency entry is matched by: its `package` field, else its key.
NameOf(e) == IF IsPresent(e.package) THEN e.package ELSE Str(e.key)

\* Some discovered local package has the name `name` (a toml value) and a
\* recorded version that covers the string `v`.
CoveredLocal(name, v) ==
    \E l \in Locals : name = Str(l.name) /\ covers(l.version, v) = "true"

\* A dependency entry with a `version` field that is a string.
Versioned(e) == e.table /\ IsStr(e.version)

Done == pc = "done"

-----------------------------------------------------------------------------
(* C1 *)

\* C1: idempotence: when the masking is run again on the documents the first
\* run returned, the second run returns every manifest and the lock document
\* as the first run returned them.
C1_Idempotent ==
    (run = 2 /\ pc = "done") => (manifests = out_manifests /\ lock_file = out_lock)

-----------------------------------------------------------------------------
(* C2 *)

\* C2: non-interference: after the masking, every manifest dependency entry
\* whose effective name is not the name of a discovered local package, every
\* lock entry whose name is not one, and every lock dependency reference whose
\* name token is not one, is as it was before the masking.
C2_NonInterference ==
    Done =>
        /\ \A i \in ManifestIndexes : \A p \in Positions(in_manifests[i]) :
              NameOf(At(in_manifests[i], p)) \notin {Str(n) : n \in LocalNames}
                  => At(manifests[i], p) = At(in_manifests[i], p)
        /\ \A j \in LockIndexes :
              in_lock.package[j].name \notin {Str(n) : n \in LocalNames}
                  => lock_file.package[j].version = in_lock.package[j].version
        /\ \A j \in LockIndexes : \A k \in 1..Len(in_lock.package[j].dependencies) :
              LET d == in_lock.package[j].dependencies[k]
              IN  (IsStr(d) /\ BeforeSpace(d.s) \notin LocalNames)
                      => lock_file.package[j].dependencies[k] = d

\* A run that masked the version "1.9" of a dependency on a local package and
\* met, in the same manifest, a dependency on a package that is not local with
\* the same version.
C2_Witness ==
    /\ Done
    /\ \E i \in ManifestIndexes : \E p, q \in Positions(in_manifests[i]) :
          /\ At(in_manifests[i], p).version = Str(V19)
          /\ At(manifests[i], p).version = Placeholder
          /\ At(in_manifests[i], q).version = Str(V19)
          /\ NameOf(At(in_manifests[i], q)) \notin {Str(n) : n \in LocalNames}

-----------------------------------------------------------------------------
(* C3 *)

\* C3: after the masking, every manifest's own package.version that was a
\* string is the placeholder; every dependency entry of the top-level tables,
\* of the tables under a target and of the workspace tables whose effective
\* name is that of a discovered local package whose recorded version covers
\* the entry's version has the placeholder as its version; and two equal
\* entries come out equal wherever they stand.
C3_ManifestsMasked ==
    Done =>
        /\ \A i \in ManifestIndexes :
              (in_manifests[i].package.present /\ IsStr(in_manifests[i].package.version))
                  => manifests[i].package.version = Placeholder
        /\ \A i \in ManifestIndexes : \A p \in Positions(in_manifests[i]) :
              LET e == At(in_manifests[i], p)
              IN  (Versioned(e) /\ CoveredLocal(NameOf(e), e.version.s))
                      => At(manifests[i], p).version = Placeholder
        /\ \A i, j \in ManifestIndexes :
              \A p \in Positions(in_manifests[i]) : \A q \in Positions(in_manifests[j]) :
                  At(in_manifests[i], p) = At(in_manifests[j], q)
                      => At(manifests[i], p) = At(manifests[j], q)

\* A run over a manifest that holds the same dependency on a local package at
\* the top level, under a target and in the workspace, all three masked, and
\* whose own version was masked.
C3_Witness ==
    /\ Done
    /\ \E i \in ManifestIndexes :
          /\ IsStr(in_manifests[i].package.version)
          /\ in_manifests[i].package.version # Placeholder
          /\ manifests[i].package.version = Placeholder
          /\ \E p, q, r \in Positions(in_manifests[i]) :
                /\ p[1] = "top" /\ q[1] = "target" /\ r[1] = "workspace"
                /\ At(in_manifests[i], p) = At(in_manifests[i], q)
                /\ At(in_manifests[i], p) = At(in_manifests[i], r)
                /\ At(in_manifests[i], p).version = Str(V19)
                /\ At(manifests[i], p).version = Placeholder
                /\ At(manifests[i], q).version = Placeholder
                /\ At(manifests[i], r).version = Placeholder

-----------------------------------------------------------------------------
(* C4 *)

\* The characters of a dependency reference after its first space.
RECURSIVE AfterSpace(_)
AfterSpace(s) ==
    IF s = <<>> THEN <<>> ELSE IF Head(s) = " " THEN Tail(s) ELSE AfterSpace(Tail(s))

\* The lock entry at j had the string version V and the masking put the
\* placeholder in its place.
MaskedEntry(j) ==
    /\ IsStr(in_lock.package[j].name)
    /\ IsStr(in_lock.package[j].version)
    /\ in_lock.package[j].version # Placeholder
    /\ lock_file.package[j].version = Placeholder

\* C4: lock propagation: whenever the masking replaced the version V of the
\* lock entry named N by the placeholder, every dependency reference "N V" of
\* every other lock entry has become "N <placeholder>", and a reference "N V'"
\* with another version V' that the recorded version of the local package N
\* does not cover is unchanged.
C4_LockPropagation ==
    Done =>
        \A j \in {i \in LockIndexes : MaskedEntry(i)} : \A o \in LockIndexes \ {j} :
            \A k \in 1..Len(in_lock.package[o].dependencies) :
                LET e == in_lock.package[j]
                    d == in_lock.package[o].dependencies[k]
                IN  /\ d = Str(Format2(e.name.s, e.version.s))
                          => lock_file.package[o].dependencies[k]
                                = Str(Format2(e.name.s, CONST_VERSION))
                    /\ (/\ IsStr(d)
                        /\ BeforeSpace(d.s) = e.name.s
                        /\ AfterSpace(d.s) # e.version.s
                        /\ ~CoveredLocal(e.name, AfterSpace(d.s)))
                          => lock_file.package[o].dependencies[k] = d

-----------------------------------------------------------------------------
(* C5 *)

\* The n-th dot-separated component of a version string, <<>> when it has none.
Piece(s, n) == IF Len(Split(s, ".")) < n THEN <<>> ELSE Split(s, ".")[n]

\* A non-empty run of digits that a u32 holds.
Numeric(c) ==
    /\ c # <<>>
    /\ \A i \in 1..Len(c) : IsDigit(c[i])
    /\ \/ Len(StripZeros(c)) < Len(U32MaxDigits)
       \/ Len(StripZeros(c)) = Len(U32MaxDigits) /\ ~DigitsGreater(StripZeros(c), U32MaxDigits)

\* `major.minor[...]` with numeric major and minor.
WellFormed(s) == Numeric(Piece(s, 1)) /\ Numeric(Piece(s, 2))

SameNumber(a, b) == StripZeros(a) = StripZeros(b)

IsZero(a) == \A i \in 1..Len(a) : a[i] = "0"

\* C5: for well-formed `major.minor[...]` strings covers(first, second) is true
\* if second is "*"; otherwise false if the majors differ; otherwise true if
\* the major is not zero; otherwise true exactly when the minors are equal;
\* and it is true, false, true, false, true on ("1.2", "1.9"), ("1.2", "2.0"),
\* ("0.3", "0.3"), ("0.3", "0.4"), ("0.0", "*").
C5_CoversRule ==
    cv_result # "none" =>
        /\ (WellFormed(cv_first) /\ cv_second = VStar) => cv_result = "true"
        /\ (WellFormed(cv_first) /\ WellFormed(cv_second)) =>
              cv_result =
                  IF ~SameNumber(Piece(cv_first, 1), Piece(cv_second, 1)) THEN "false"
                  ELSE IF ~IsZero(Piece(cv_first, 1)) THEN "true"
                  ELSE IF SameNumber(Piece(cv_first, 2), Piece(cv_second, 2)) THEN "true"
                  ELSE "false"
        /\ (cv_first = <<"1", ".", "2">> /\ cv_second = V19) => cv_result = "true"
        /\ (cv_first = <<"1", ".", "2">> /\ cv_second = V20) => cv_result = "false"
        /\ (cv_first = <<"0", ".", "3">> /\ cv_second = <<"0", ".", "3">>) => cv_result = "true"
        /\ (cv_first = <<"0", ".", "3">> /\ cv_second = <<"0", ".", "4">>) => cv_result = "false"
        /\ (cv_first = <<"0", ".", "0">> /\ cv_second = VStar) => cv_result = "true"

\* covers("0.3", "0.4") has returned false.
C5_Witness ==
    /\ cv_first = <<"0", ".", "3">>
    /\ cv_second = <<"0", ".", "4">>
    /\ cv_result = "false"

-----------------------------------------------------------------------------
(* C6 *)

\* C6: renaming: after the masking, the version (a string) of a dependency
\* entry that has a `package` field is the placeholder if that field names a
\* discovered local package whose recorded version covers it, whatever the
\* table key, and is unchanged otherwise, also when the key is the name of a
\* local package; the version of an entry without a `package` field is decided
\* in the same way by its table key.
C6_Renaming ==
    Done =>
        \A i \in ManifestIndexes : \A p \in Positions(in_manifests[i]) :
            LET e == At(in_manifests[i], p)
                matched == IF IsPresent(e.package) THEN e.package ELSE Str(e.key)
            IN  Versioned(e) =>
                    At(manifests[i], p).version =
                        IF CoveredLocal(matched, e.version.s) THEN Placeholder ELSE e.version

\* A run that masked `c = { package = "a", version = "1.9" }` and left
\* `a = { package = "c", version = "1.9" }` alone, with `a` local and `c` not.
C6_Witness ==
    /\ Done
    /\ NameA \in LocalNames /\ NameC \notin LocalNames
    /\ \E i \in ManifestIndexes : \E p, q \in Positions(in_manifests[i]) :
          /\ At(in_manifests[i], p) = Dependency(NameC, Str(NameA), Str(V19))
          /\ At(manifests[i], p).version = Placeholder
          /\ At(in_manifests[i], q) = Dependency(NameA, Str(NameC), Str(V19))
          /\ At(manifests[i], q).version = Str(V19)

-----------------------------------------------------------------------------
(* C7 *)

\* C7: a version or requirement string without a numeric major or minor
\* component never crashes the masking run: the run ends by returning to its
\* caller, never by a panic.
C7_NeverPanics == pc # "panicked"

-----------------------------------------------------------------------------
(* C8 *)

\* The manifests that declare a local package: a `package` table whose name
\* and version are both strings.
Declaring == {i \in ManifestIndexes :
                 /\ in_manifests[i].package.present
                 /\ IsStr(in_manifests[i].package.name)
                 /\ IsStr(in_manifests[i].package.version)}

\* C8: discovery returns one {name, version} record for each manifest that has
\* a `package` table whose name and version are strings, in manifest order and
\* with the values the documents had before any masking, nothing for any other
\* manifest, and changes no document.
C8_Discovery ==
    (pc # "start") =>
        /\ Len(local_package_names) = Cardinality(Declaring)
        /\ \A i \in Declaring :
              local_package_names[Cardinality({j \in Declaring : j <= i})]
                  = [name |-> in_manifests[i].package.name.s,
                     version |-> in_manifests[i].package.version.s]
        /\ (pc = "manifests" /\ idx = 1) =>
              (manifests = in_manifests /\ lock_file = in_lock)

\* Discovery has skipped a first manifest whose `package` table has no string
\* version and returned the record of the second.
C8_Witness ==
    /\ pc = "manifests" /\ idx = 1
    /\ Len(in_manifests) = 2
    /\ in_manifests[1].package.present /\ ~IsStr(in_manifests[1].package.version)
    /\ local_package_names = <<[name |-> NameB, version |-> V031]>>

-----------------------------------------------------------------------------
(* C9 *)

\* The lock entry e names a discovered local package whose recorded version
\* covers its version.
LocalEntry(e) ==
    IsStr(e.name) /\ IsStr(e.version) /\ CoveredLocal(e.name, e.version.s)

-----------------------------------------------------------------------------
(* C10 *)

Orders(n) == {f \in [1..n -> 1..n] : \A i, j \in 1..n : f[i] = f[j] => i = j}

Permuted(ms, f) == [i \in 1..Len(ms) |-> ms[f[i]]]

\* The local packages are those of the documents as they were passed in, at
\* every point of the run after the discovery.
C10_SetFixed ==
    (pc \in {"manifests", "done", "panicked"}) =>
        local_package_names = parse_local_crate_names(in_manifests)

\* What a run returns is, manifest by manifest, what a run over the same
\* manifests in any other order returns.
C10_OrderFree ==
    Done =>
        \A f \in Orders(Len(in_manifests)) :
            LET other == mask_local_crate_versions(Permuted(in_manifests, f), in_lock)
            IN  other.ok =>
                    /\ \A i \in ManifestIndexes : other.manifests[i] = manifests[f[i]]
                    /\ other.lock = lock_file

\* C10: the local packages are discovered once, from the documents as they
\* were passed in, and no masking step changes them; so the documents a run
\* returns are the same, manifest by manifest, for every order of the
\* manifests, although each manifest's own version is overwritten while later
\* manifests and the lock document are still to be processed.
C10_DiscoveredOnce == C10_SetFixed /\ C10_OrderFree

\* A run over a manifest that depends on the local package of the manifest
\* after it: the first manifest's dependency was masked, and so was the own
\* version of the second, after the first had been processed.
C10_Witness ==
    /\ Done
    /\ Len(in_manifests) = 2
    /\ in_manifests[2].package = Package(Str(NameA), Str(V120))
    /\ manifests[2].package.version = Placeholder
    /\ local_package_names = <<[name |-> NameA, version |-> V120]>>
    /\ \E p \in Positions(in_manifests[1]) :
          /\ At(in_manifests[1], p).version = Str(V19)
          /\ At(manifests[1], p).version = Placeholder

====
